---- MODULE Spec2Model ----
(***************************************************************************)
(* Model of lab2/ncf/src/inference.py: the pre/post-processing handler     *)
(* placed in front of the NCF recommendation model server.                 *)
(*                                                                         *)
(* A text (request body, model-server body, returned body, error message)  *)
(* is a sequence of lexemes: the punctuation of JSON, quoted keys, one     *)
(* lexeme per number and " " for insignificant white space.  json.loads    *)
(* and json.dumps are modelled as a parser and a printer over such texts.  *)
(***************************************************************************)
EXTENDS Integers, Sequences, FiniteSets, TLC

\* ---------------------------------------------------------------- bounds
MaxInstances == 2
MaxPredictions == 2
NumItems == 2
MaxScore == 1

\* ----------------------------------------------------- program constants
HTTP_OK == 200

JSON_CONTENT_TYPE == "application/json"

INPUT_FIELD == "\"input_2\""

INSTANCES_KEY == "\"instances\""

PREDICTIONS_KEY == "\"predictions\""

ITEM_ID_KEY == "\"item_id\""

PREDICTION_KEY == "\"prediction\""

\* ------------------------------------------------------------- utilities
None == <<>>

Some(x) == <<x>>

Min(a, b) == IF a <= b THEN a ELSE b

RECURSIVE Reverse(_)
Reverse(s) == IF Len(s) = 0 THEN <<>> ELSE Append(Reverse(Tail(s)), Head(s))

\* All sequences over S of length 0..n.
SeqUpTo(S, n) == UNION {[1..k -> S] : k \in 0..n}

\* ------------------------------------------------------- number lexemes
DigitLexemes == <<"0", "1", "2", "3", "4", "5", "6", "7", "8", "9">>

NumberLexeme(n) == DigitLexemes[n + 1]

IsNumberLexeme(tok) == tok \in {"0", "1", "2", "3", "4", "5", "6", "7", "8", "9"}

NumberOf(tok) == CHOOSE n \in 0..9 : DigitLexemes[n + 1] = tok

KeyLexemes == {INPUT_FIELD, INSTANCES_KEY, PREDICTIONS_KEY, ITEM_ID_KEY, PREDICTION_KEY}

\* --------------------------------------------------- json.loads (parser)
JNum(n) == [t |-> "num", n |-> n]

JArr(items) == [t |-> "arr", items |-> items]

JObj(keys, vals) == [t |-> "obj", keys |-> keys, vals |-> vals]

ParseFail == [ok |-> FALSE]

ParseOk(val, next) == [ok |-> TRUE, val |-> val, next |-> next]

RECURSIVE SkipWs(_, _)
SkipWs(text, i) ==
    IF i <= Len(text) /\ text[i] = " " THEN SkipWs(text, i + 1) ELSE i

RECURSIVE ParseValue(_, _), ParseArray(_, _, _), ParseObject(_, _, _, _)
ParseValue(text, i) ==
    LET j == SkipWs(text, i) IN
    IF j > Len(text) THEN ParseFail
    ELSE IF IsNumberLexeme(text[j]) THEN ParseOk(JNum(NumberOf(text[j])), j + 1)
    ELSE IF text[j] = "[" THEN ParseArray(text, j + 1, <<>>)
    ELSE IF text[j] = "{" THEN ParseObject(text, j + 1, <<>>, <<>>)
    ELSE ParseFail

\* i is the position after "[" (acc empty) or after a "," (acc not empty).
ParseArray(text, i, acc) ==
    LET j == SkipWs(text, i) IN
    IF j > Len(text) THEN ParseFail
    ELSE IF text[j] = "]" /\ Len(acc) = 0 THEN ParseOk(JArr(acc), j + 1)
    ELSE LET r == ParseValue(text, j) IN
         IF ~r.ok THEN ParseFail
         ELSE LET k == SkipWs(text, r.next) IN
              IF k > Len(text) THEN ParseFail
              ELSE IF text[k] = "," THEN ParseArray(text, k + 1, Append(acc, r.val))
              ELSE IF text[k] = "]" THEN ParseOk(JArr(Append(acc, r.val)), k + 1)
              ELSE ParseFail

\* i is the position after "{" (no key yet) or after a ",".
ParseObject(text, i, keys, vals) ==
    LET j == SkipWs(text, i) IN
    IF j > Len(text) THEN ParseFail
    ELSE IF text[j] = "}" /\ Len(keys) = 0 THEN ParseOk(JObj(keys, vals), j + 1)
    ELSE IF text[j] \notin KeyLexemes THEN ParseFail
    ELSE LET c == SkipWs(text, j + 1) IN
         IF c > Len(text) \/ text[c] # ":" THEN ParseFail
         ELSE LET r == ParseValue(text, c + 1) IN
              IF ~r.ok THEN ParseFail
              ELSE LET k == SkipWs(text, r.next) IN
                   IF k > Len(text) THEN ParseFail
                   ELSE IF text[k] = ","
                        THEN ParseObject(text, k + 1, Append(keys, text[j]), Append(vals, r.val))
                   ELSE IF text[k] = "}"
                        THEN ParseOk(JObj(Append(keys, text[j]), Append(vals, r.val)), k + 1)
                   ELSE ParseFail

\* json.loads: one value, then nothing but white space.
Loads(text) ==
    LET r == ParseValue(text, 1) IN
    IF r.ok /\ SkipWs(text, r.next) > Len(text) THEN [ok |-> TRUE, val |-> r.val]
    ELSE ParseFail

HasKey(obj, key) == obj.t = "obj" /\ \E k \in 1..Len(obj.keys) : obj.keys[k] = key

\* dict lookup: the last member of that name wins, as in json.loads.
Get(obj, key) ==
    obj.vals[CHOOSE k \in 1..Len(obj.keys) :
                /\ obj.keys[k] = key
                /\ \A m \in 1..Len(obj.keys) : obj.keys[m] = key => m <= k]

\* ---------------------------------------------------- json.dumps (printer)
RECURSIVE Join(_, _)
Join(parts, sep) ==
    IF Len(parts) = 0 THEN <<>>
    ELSE IF Len(parts) = 1 THEN Head(parts)
    ELSE Head(parts) \o sep \o Join(Tail(parts), sep)

\* sp is the white space written after "," and ":" (json.dumps writes " ").
PrintArray(parts, sp) == <<"[">> \o Join(parts, <<",">> \o sp) \o <<"]">>

PrintMember(key, part, sp) == <<key, ":">> \o sp \o part

PrintObject(members, sp) == <<"{">> \o Join(members, <<",">> \o sp) \o <<"}">>

PrintNumbers(ns, sp) == PrintArray([k \in 1..Len(ns) |-> <<NumberLexeme(ns[k])>>], sp)

DumpsEntry(e) ==
    PrintObject(<<PrintMember(ITEM_ID_KEY, <<NumberLexeme(e.item_id)>>, <<" ">>),
                  PrintMember(PREDICTION_KEY, <<NumberLexeme(e.prediction)>>, <<" ">>)>>,
                <<" ">>)

\* json.dumps(item_prediction)
Dumps(item_prediction_scores) ==
    PrintObject(<<PrintMember(PREDICTIONS_KEY,
                              PrintArray([k \in 1..Len(item_prediction_scores) |->
                                             DumpsEntry(item_prediction_scores[k])], <<" ">>),
                              <<" ">>)>>,
                <<" ">>)

\* ------------------------------------------------- Python list operations
\* list.index(x): zero-based position of the first element equal to x;
\* -1 stands for the ValueError raised when there is none.
ListIndex(list, x) ==
    IF \E k \in 1..Len(list) : list[k] = x
    THEN (CHOOSE k \in 1..Len(list) :
            list[k] = x /\ \A m \in 1..(k - 1) : list[m] # x) - 1
    ELSE -1

\* Variant: zip_longest with fill values, as long as the longer sequence.
ZipLongest(a, b) ==
    [k \in 1..(IF Len(a) >= Len(b) THEN Len(a) ELSE Len(b)) |->
        <<IF k <= Len(a) THEN a[k] ELSE 0, IF k <= Len(b) THEN b[k] ELSE <<0>>>>]

\* zip(a, b): stops at the end of the shorter sequence.
Zip(a, b) == [k \in 1..Min(Len(a), Len(b)) |-> <<a[k], b[k]>>]

order_item_predictions(e) == e.prediction

\* Insertion of e after every element whose key is not greater than e's:
\* the stable ascending insertion list.sort performs with "<" on the keys.
RECURSIVE InsertStable(_, _)
InsertStable(sorted, e) ==
    IF Len(sorted) = 0 THEN <<e>>
    ELSE IF order_item_predictions(e) < order_item_predictions(Head(sorted))
         THEN <<e>> \o sorted
         ELSE <<Head(sorted)>> \o InsertStable(Tail(sorted), e)

RECURSIVE StableSortAscending(_)
StableSortAscending(list) ==
    IF Len(list) = 0 THEN <<>>
    ELSE InsertStable(StableSortAscending(SubSeq(list, 1, Len(list) - 1)), list[Len(list)])

\* Variant: reverse=True forgotten.
SortAscending(list) == StableSortAscending(list)

\* Variant: sorted ascending and then reversed, which reverses ties too.
SortThenReverse(list) == Reverse(StableSortAscending(list))

\* list.sort(key=order_item_predictions, reverse=True): the list is reversed,
\* sorted stably in ascending key order and reversed again.
SortReverse(list) == Reverse(StableSortAscending(Reverse(list)))

\* ------------------------------------------------------------ exceptions
Error(type, msg) == [type |-> type, msg |-> msg]

UnsupportedContentTypeMsg(request_content_type) ==
    <<"{", "\"error\"", ":", " ", "\"unsupported content type ",
      IF request_content_type = "" THEN "unknown" ELSE request_content_type,
      "\"", "}">>

ValueNotFound == Error("ValueError", <<"1 is not in list">>)

\* --------------------------------------------------------------- inputs
OneHot(i) == [k \in 1..NumItems |-> IF k = i THEN 1 ELSE 0]

\* The one-hot vectors, the vector without a 1 and a vector with two 1s.
Vectors ==
    {OneHot(i) : i \in 1..NumItems}
    \cup {[k \in 1..NumItems |-> 0]}
    \cup {[k \in 1..NumItems |-> IF k >= NumItems - 1 THEN 1 ELSE 0]}

WhiteSpace == {<<>>, <<" ">>}

PrintRequest(vectors, sp) ==
    PrintObject(<<PrintMember(INSTANCES_KEY,
                    PrintArray([k \in 1..Len(vectors) |->
                                   PrintObject(<<PrintMember(INPUT_FIELD,
                                                   PrintNumbers(vectors[k], sp), sp)>>, sp)],
                               sp),
                    sp)>>,
                sp)

\* Request bodies: batches in two layouts, the empty body, an object without
\* "instances" and a truncated text.
RequestBodies ==
    {PrintRequest(vs, sp) : vs \in SeqUpTo(Vectors, MaxInstances), sp \in WhiteSpace}
    \cup {<<>>, <<"{", "}">>, <<"{", INSTANCES_KEY, ":", "[">>}

ContentTypes == {JSON_CONTENT_TYPE, "text/plain", ""}

AcceptHeaders == {"*/*"}

Scores == 0..MaxScore

\* One score list per instance; only its first element is used.
PredictionEntries == {<<s>> : s \in Scores} \cup {<<0, MaxScore>>}

PrintResponse(entries) ==
    PrintObject(<<PrintMember(PREDICTIONS_KEY,
                    PrintArray([k \in 1..Len(entries) |-> PrintNumbers(entries[k], <<" ">>)],
                               <<" ">>),
                    <<" ">>)>>,
                <<>>)

\* Bodies of the model server: prediction lists, plain text and an object
\* without "predictions".
ResponseBodies ==
    {PrintResponse(es) : es \in SeqUpTo(PredictionEntries, MaxPredictions)}
    \cup {<<"server overloaded">>, <<"{", "}">>}

\* Bodies the model server sends with an error status: plain text, or JSON.
ErrorBodies == {<<"server overloaded">>, <<"{", "}">>, PrintResponse(<<<<0>>>>)}

Responses ==
    [status_code : {HTTP_OK}, content : ResponseBodies]
    \cup [status_code : {500, 404}, content : ErrorBodies]

\* ----------------------------------------------------------------- state
VARIABLES
    pc,                      \* position of the invocation in handler
    data,                    \* inbound request body
    request_content_type,    \* context.request_content_type ("" when absent)
    accept_header,           \* context.accept_header
    processed_input,         \* None or Some(text returned by _process_input)
    instances,               \* the input_2 vectors of the parsed instances
    item_ids,                \* item ids extracted so far
    posts,                   \* bodies POSTed to context.rest_uri, in order
    response,                \* None or Some(response of the model server)
    prediction_scores,       \* pred_json['predictions']
    item_prediction_scores,  \* the paired and sorted list
    returned,                \* None or Some(value handler returned)
    error                    \* None or Some(exception handler raised)

vars == <<pc, data, request_content_type, accept_header, processed_input, instances,
          item_ids, posts, response, prediction_scores, item_prediction_scores,
          returned, error>>

\* The hosting framework calls handler(data, context): the request is any of
\* the inbound requests, and handler holds nothing from an earlier invocation.
Init ==
    /\ pc = "process_input"
    /\ data \in RequestBodies
    /\ request_content_type \in ContentTypes
    /\ accept_header \in AcceptHeaders
    /\ processed_input = None
    /\ instances = <<>>
    /\ item_ids = <<>>
    /\ posts = <<>>
    /\ response = None
    /\ prediction_scores = <<>>
    /\ item_prediction_scores = <<>>
    /\ returned = None
    /\ error = None

\* The exception e escapes handler.
Raise(e) ==
    /\ pc' = "done"
    /\ error' = Some(e)
    /\ returned' = None

\* Variant: the body is normalised (white space dropped) instead of passed through.
DecodeNormalised(d) == LET NotWs(tok) == tok # " " IN SelectSeq(d, NotWs)

\* data.read().decode('utf-8'), then "d if len(d) else ''".
DecodeBody(d) == IF Len(d) # 0 THEN d ELSE <<>>

\* Variant: every declared content type is accepted.
ContentTypeDeclared(ct) == ct # ""

\* The test of _process_input.
ContentTypeAccepted(ct) == ct = JSON_CONTENT_TYPE

\* processed_input = _process_input(data, context)
ProcessInput ==
    /\ pc = "process_input"
    /\ IF ContentTypeAccepted(request_content_type)
       THEN /\ processed_input' = Some(DecodeBody(data))
            /\ pc' = "extract"
            /\ UNCHANGED <<returned, error>>
       ELSE /\ Raise(Error("ValueError", UnsupportedContentTypeMsg(request_content_type)))
            /\ UNCHANGED processed_input
    /\ UNCHANGED <<data, request_content_type, accept_header, instances, item_ids, posts,
                   response, prediction_scores, item_prediction_scores>>

\* The numbers of a parsed JSON array.
NumbersOf(arr) == [k \in 1..Len(arr.items) |-> arr.items[k].n]

\* processed_input_json['instances'], and instance['input_2'] of each instance.
InputVectors(processed_input_json) ==
    LET list == Get(processed_input_json, INSTANCES_KEY).items IN
    [k \in 1..Len(list) |-> NumbersOf(Get(list[k], INPUT_FIELD))]

\* Variant: an instance whose input_2 has no 1 is skipped.
RECURSIVE ExtractSkipping(_, _)
ExtractSkipping(vectors, ids) ==
    IF Len(vectors) = 0 THEN [ok |-> TRUE, item_ids |-> ids]
    ELSE LET item_id == ListIndex(Head(vectors), 1) IN
         ExtractSkipping(Tail(vectors), IF item_id < 0 THEN ids ELSE Append(ids, item_id))

\* The loop of handler over instances: the ids of the instances up to the
\* first one whose input_2 has no 1, where list.index raises.
RECURSIVE ExtractItemIds(_, _)
ExtractItemIds(vectors, ids) ==
    IF Len(vectors) = 0 THEN [ok |-> TRUE, item_ids |-> ids]
    ELSE LET item_id == ListIndex(Head(vectors), 1) IN
         IF item_id < 0 THEN [ok |-> FALSE, item_ids |-> ids]
         ELSE ExtractItemIds(Tail(vectors), Append(ids, item_id))

\* json.loads(processed_input), ['instances'] and the extraction loop.
Extract ==
    /\ pc = "extract"
    /\ LET processed_input_json == Loads(processed_input[1]) IN
       IF ~processed_input_json.ok
       THEN /\ Raise(Error("JSONDecodeError", <<"Expecting value">>))
            /\ UNCHANGED <<instances, item_ids>>
       ELSE IF ~HasKey(processed_input_json.val, INSTANCES_KEY)
       THEN /\ Raise(Error("KeyError", <<INSTANCES_KEY>>))
            /\ UNCHANGED <<instances, item_ids>>
       ELSE LET vectors == InputVectors(processed_input_json.val)
                r == ExtractItemIds(vectors, <<>>)
            IN  /\ instances' = vectors
                /\ item_ids' = r.item_ids
                /\ IF r.ok
                   THEN pc' = "post" /\ UNCHANGED <<returned, error>>
                   ELSE Raise(ValueNotFound)
    /\ UNCHANGED <<data, request_content_type, accept_header, processed_input, posts,
                   response, prediction_scores, item_prediction_scores>>

\* Variant: the POST is repeated once when the model server answers with an error.
PostWithRetry ==
    /\ pc = "post"
    /\ posts' = Append(posts, processed_input[1])
    /\ \E r \in Responses :
          /\ response' = Some(r)
          /\ pc' = IF r.status_code # HTTP_OK /\ Len(posts) = 0 THEN "post" ELSE "process_output"
    /\ UNCHANGED <<data, request_content_type, accept_header, processed_input, instances,
                   item_ids, prediction_scores, item_prediction_scores, returned, error>>

\* response = requests.post(context.rest_uri, data=processed_input), answered
\* by the model server.
Post ==
    /\ pc = "post"
    /\ posts' = Append(posts, processed_input[1])
    /\ \E r \in Responses : response' = Some(r)
    /\ pc' = "process_output"
    /\ UNCHANGED <<data, request_content_type, accept_header, processed_input, instances,
                   item_ids, prediction_scores, item_prediction_scores, returned, error>>

\* requests.post raises: the request went out and no response came back.
PostFails ==
    /\ pc = "post"
    /\ posts' = Append(posts, processed_input[1])
    /\ Raise(Error("ConnectionError", <<"connection failed">>))
    /\ UNCHANGED <<data, request_content_type, accept_header, processed_input, instances,
                   item_ids, response, prediction_scores, item_prediction_scores>>

\* Variant: only statuses below 200 are refused.
StatusAtLeastOk(status_code) == status_code >= HTTP_OK

\* The test of _process_output.
StatusAccepted(status_code) == status_code = HTTP_OK

\* prediction, response_content_type = _process_output(response, context)
ProcessOutput ==
    /\ pc = "process_output"
    /\ IF StatusAccepted(response[1].status_code)
       THEN pc' = "rank" /\ UNCHANGED <<returned, error>>
       ELSE Raise(Error("ValueError", response[1].content))
    /\ UNCHANGED <<data, request_content_type, accept_header, processed_input, instances,
                   item_ids, posts, response, prediction_scores, item_prediction_scores>>

\* Variant: the scores are paired in reverse position.
PairScoresReversed(ids, scores) ==
    LET z == Zip(ids, scores) IN
    [k \in 1..Len(z) |-> [item_id |-> z[k][1], prediction |-> z[Len(z) + 1 - k][2][1]]]

\* The list comprehension of handler: each id with the first score at its position.
PairScores(ids, scores) ==
    LET z == Zip(ids, scores) IN
    [k \in 1..Len(z) |-> [item_id |-> z[k][1], prediction |-> z[k][2][1]]]

\* pred_json['predictions']
PredictionLists(pred_json) ==
    LET list == Get(pred_json, PREDICTIONS_KEY).items IN
    [k \in 1..Len(list) |-> NumbersOf(list[k])]

\* Decoding, pairing, sorting and serialising of the model server's answer.
Rank ==
    /\ pc = "rank"
    /\ LET pred_json == Loads(response[1].content) IN
       IF ~pred_json.ok
       THEN /\ Raise(Error("JSONDecodeError", <<"Expecting value">>))
            /\ UNCHANGED <<prediction_scores, item_prediction_scores>>
       ELSE IF ~HasKey(pred_json.val, PREDICTIONS_KEY)
       THEN /\ Raise(Error("KeyError", <<PREDICTIONS_KEY>>))
            /\ UNCHANGED <<prediction_scores, item_prediction_scores>>
       ELSE LET scores == PredictionLists(pred_json.val)
                sorted == SortReverse(PairScores(item_ids, scores))
            IN  /\ prediction_scores' = scores
                /\ item_prediction_scores' = sorted
                /\ returned' = Some([body |-> Dumps(sorted),
                                     content_type |-> accept_header])
                /\ error' = None
                /\ pc' = "done"
    /\ UNCHANGED <<data, request_content_type, accept_header, processed_input, instances,
                   item_ids, posts, response>>

Next ==
    \/ ProcessInput
    \/ Extract
    \/ Post
    \/ PostFails
    \/ ProcessOutput
    \/ Rank

Spec == Init /\ [][Next]_vars

\* ------------------------------------------------------------ properties
Done == pc = "done"

RequestIsJson == request_content_type = JSON_CONTENT_TYPE

\* The inbound body is JSON text of an object with an "instances" member.
RequestParses == LET j == Loads(data) IN j.ok /\ HasKey(j.val, INSTANCES_KEY)

\* The input_2 vectors of the inbound batch, in input order.
RequestVectors ==
    LET j == Loads(data) IN
    IF j.ok /\ HasKey(j.val, INSTANCES_KEY) THEN InputVectors(j.val) ELSE <<>>

HasOne(v) == \E k \in 1..Len(v) : v[k] = 1

\* Zero-based position of the first 1 of a vector that has one.
FirstOne(v) == (CHOOSE k \in 1..Len(v) : v[k] = 1 /\ \A m \in 1..(k - 1) : v[m] # 1) - 1

ValidRequest ==
    /\ RequestIsJson
    /\ RequestParses
    /\ LET vs == RequestVectors IN \A k \in 1..Len(vs) : HasOne(vs[k])

\* The model server answered 200 with JSON text holding a "predictions" list.
ServerAnswered ==
    /\ response # None
    /\ response[1].status_code = HTTP_OK
    /\ LET j == Loads(response[1].content) IN j.ok /\ HasKey(j.val, PREDICTIONS_KEY)

ServerScores ==
    IF response = None \/ response[1].status_code # HTTP_OK THEN <<>>
    ELSE LET j == Loads(response[1].content) IN
         IF j.ok /\ HasKey(j.val, PREDICTIONS_KEY) THEN PredictionLists(j.val) ELSE <<>>

\* The entries of the body handler returned, read back from its text.
ReturnedEntries ==
    LET list == Get(Loads(returned[1].body).val, PREDICTIONS_KEY).items IN
    [k \in 1..Len(list) |-> [item_id |-> Get(list[k], ITEM_ID_KEY).n,
                             prediction |-> Get(list[k], PREDICTION_KEY).n]]

Bijections(n) == {f \in [1..n -> 1..n] : \A i, j \in 1..n : f[i] = f[j] => i = j}

\* The pairs of the input positions: the item id of position k and the first
\* score at k, for every k that has both.
PositionalPairs ==
    LET vs == RequestVectors
        scores == ServerScores
    IN  [k \in 1..Min(Len(vs), Len(scores)) |->
            [item_id |-> FirstOne(vs[k]), prediction |-> scores[k][1]]]

\* out is pairs in some order.
IsPermutationOf(out, pairs) ==
    /\ Len(out) = Len(pairs)
    /\ \E f \in Bijections(Len(pairs)) : \A j \in 1..Len(pairs) : out[j] = pairs[f[j]]

EmptyPredictionsText == <<"{", PREDICTIONS_KEY, ":", " ", "[", "]", "}">>

\* C1: for a valid request that handler answers, the returned list is as long
\* as the instances list and holds each one-hot index exactly as often as the
\* input instances yield it.
C1_RoundTrip ==
    (returned # None /\ ValidRequest) =>
        LET out == ReturnedEntries
            vs == RequestVectors
        IN  /\ Len(out) = Len(vs)
            /\ \A i \in 0..(NumItems - 1) :
                  Cardinality({k \in 1..Len(out) : out[k].item_id = i})
                  = Cardinality({k \in 1..Len(vs) : FirstOne(vs[k]) = i})

\* C2: in every returned response the prediction values are non-increasing
\* from the first entry to the last.
C2_NonIncreasing ==
    returned # None =>
        LET out == ReturnedEntries IN
        \A k \in 1..(Len(out) - 1) : out[k].prediction >= out[k + 1].prediction

\* The sort had to move entries: the scores came in ascending order.
C2_Witness ==
    /\ returned # None
    /\ Len(ReturnedEntries) >= 2
    /\ ServerScores[1][1] < ServerScores[2][1]
    /\ ReturnedEntries[1].prediction > ReturnedEntries[2].prediction

\* C3: every returned entry is the item id and the first score of one and the
\* same input position, the response being a permutation of the positional
\* pairs; instances [0,1,..],[1,0,..] scored [0],[1] yield item 0 before item 1.
C3_PositionalPairs ==
    returned # None =>
        /\ IsPermutationOf(ReturnedEntries, PositionalPairs)
        /\ (RequestVectors = <<OneHot(2), OneHot(1)>> /\ ServerScores = <<<<0>>, <<1>>>>) =>
              ReturnedEntries = <<[item_id |-> 0, prediction |-> 1],
                                  [item_id |-> 1, prediction |-> 0]>>

C3_Witness ==
    /\ returned # None
    /\ RequestVectors = <<OneHot(2), OneHot(1)>>
    /\ ServerScores = <<<<0>>, <<1>>>>
    /\ ReturnedEntries[1] = PositionalPairs[2]

\* C4: a request whose content type is not exactly application/json fails
\* with the unsupported-content-type error, gets no response, and the model
\* server is not called at any point of the invocation.
C4_ContentTypeRejected ==
    ~RequestIsJson =>
        /\ posts = <<>>
        /\ response = None
        /\ returned = None
        /\ Done => error = Some(Error("ValueError",
                                      UnsupportedContentTypeMsg(request_content_type)))
        /\ Done /\ request_content_type = "" =>
              error[1].msg[6] = "unknown"

C4_Witness ==
    /\ Done
    /\ request_content_type = "text/plain"
    /\ RequestParses
    /\ error # None
    /\ error[1].msg[6] = "text/plain"

\* C5: when the model server answers with a status other than 200, handler
\* fails with an error whose message is the response body text, and returns
\* no response.
C5_ModelServerError ==
    (response # None /\ response[1].status_code # HTTP_OK) =>
        /\ returned = None
        /\ Done => error = Some(Error("ValueError", response[1].content))

C5_Witness ==
    /\ Done
    /\ response # None
    /\ response[1].status_code = 500
    /\ response[1].content = <<"server overloaded">>
    /\ error[1].msg = <<"server overloaded">>

\* C6 as stated: every finished invocation made exactly one outbound call.
C6_ExactlyOneCall == Done => Len(posts) = 1

\* C6, amended: never more than one outbound call per invocation; a finished
\* invocation made exactly one when its request was valid, and none when it
\* failed before the call.
C6_AtMostOneCall ==
    /\ Len(posts) <= 1
    /\ Done => (Len(posts) = 1 <=> ValidRequest)

\* A server failure that was not retried.
C6_Witness ==
    /\ Done
    /\ Len(posts) = 1
    /\ response # None
    /\ response[1].status_code = 500
    /\ error # None

\* C7 as stated: a batch with an instance whose input_2 has no 1 fails with
\* the value-not-found error.
C7_AlwaysValueNotFound ==
    (Done /\ LET vs == RequestVectors IN \E k \in 1..Len(vs) : ~HasOne(vs[k])) =>
        /\ returned = None
        /\ error = Some(ValueNotFound)

\* C7, amended: with content type application/json, a batch with an instance
\* whose input_2 has no 1 fails with the value-not-found error, without a
\* response and without a call of the model server.
C7_ValueNotFound ==
    (/\ pc \notin {"process_input", "extract"}
     /\ RequestIsJson
     /\ LET vs == RequestVectors IN \E k \in 1..Len(vs) : ~HasOne(vs[k])) =>
        /\ Done
        /\ error = Some(ValueNotFound)
        /\ returned = None
        /\ posts = <<>>

\* The offending instance follows one that has an item id.
C7_Witness ==
    /\ Done
    /\ RequestIsJson
    /\ Len(RequestVectors) = 2
    /\ HasOne(RequestVectors[1])
    /\ ~HasOne(RequestVectors[2])
    /\ error = Some(ValueNotFound)

\* C8: every body POSTed to the model server is the inbound body, lexeme for
\* lexeme; a request with an empty instances list is forwarded and, answered
\* with a predictions list, yields the response {"predictions": []}.
C8_Verbatim ==
    /\ \A k \in 1..Len(posts) : posts[k] = data
    /\ (Done /\ ValidRequest /\ Len(RequestVectors) = 0) =>
          /\ Len(posts) = 1
          /\ Loads(posts[1]).ok
          /\ Len(InputVectors(Loads(posts[1]).val)) = 0
          /\ ServerAnswered => returned # None /\ returned[1].body = EmptyPredictionsText

\* A forwarded body with white space in it, for an empty batch.
C8_Witness ==
    /\ Done
    /\ data = PrintRequest(<<>>, <<" ">>)
    /\ posts = <<data>>
    /\ returned # None
    /\ returned[1].body = EmptyPredictionsText

\* C9: entries with equal scores keep the relative order of their input
\* positions: for each score, the returned entries having it are the
\* positional pairs having it, in input order.
C9_Stable ==
    returned # None =>
        LET out == ReturnedEntries
            pairs == PositionalPairs
        IN  \A s \in Scores :
               LET HasScore(e) == e.prediction = s IN
               SelectSeq(out, HasScore) = SelectSeq(pairs, HasScore)

\* Two distinct items with the same score, the higher id first in the input.
C9_Witness ==
    /\ returned # None
    /\ Len(ReturnedEntries) = 2
    /\ ReturnedEntries[1].prediction = ReturnedEntries[2].prediction
    /\ ReturnedEntries[1].item_id > ReturnedEntries[2].item_id
    /\ ReturnedEntries[1] = PositionalPairs[1]

\* C10: when the model server answers 200 with a predictions list whose
\* length differs from the number of instances, handler raises nothing and
\* returns min(instances, predictions) entries, a permutation of the pairs of
\* the first positions of both sequences.
C10_Truncates ==
    (Done /\ ValidRequest /\ ServerAnswered /\ Len(ServerScores) # Len(RequestVectors)) =>
        /\ error = None
        /\ returned # None
        /\ Len(ReturnedEntries) = Min(Len(RequestVectors), Len(ServerScores))
        /\ IsPermutationOf(ReturnedEntries, PositionalPairs)

\* A trailing item id was dropped.
C10_Witness ==
    /\ Done
    /\ Len(RequestVectors) = 2
    /\ ServerAnswered
    /\ Len(ServerScores) = 1
    /\ returned # None
    /\ Len(ReturnedEntries) = 1

TypeOK ==
    /\ pc \in {"process_input", "extract", "post", "process_output", "rank", "done"}
    /\ Len(posts) <= 1
    /\ Len(returned) <= 1
    /\ Len(error) <= 1

====
